---- MODULE Spec2Model ----
(***************************************************************************)
(* Price-event detection, extremum scan, labelling, token summary and     *)
(* trade simulation of analysis_dexboost (src/env_scripts/plot_utils.py,   *)
(* target_definition.py, preprocessing.py, pipeline.py; src/main.py).      *)
(*                                                                         *)
(* Numbers.  Prices and time offsets are integers.  A threshold ratio is   *)
(* kept in hundredths (150 stands for 1.5), so Price >= initial*ratio is   *)
(* Price*100 >= initial*150.  Every other float of the program is an exact *)
(* rational n/d in lowest terms, extended with the IEEE values nan, +inf   *)
(* and -inf that numpy produces on a division by zero; binary rounding is  *)
(* not modelled.                                                           *)
(***************************************************************************)
EXTENDS Integers, Sequences, FiniteSets, TLC

VARIABLES
    df,                 \* calculate_event_data: the frame passed in
    tp_threshold,       \* take-profit ratio, in hundredths
    sl_threshold,       \* stop-loss ratio, in hundredths
    data,               \* calculate_event_data: what the call produced
    row,                \* define_is_worth_it: the summary row
    label,              \* define_is_worth_it: the value returned for row
    prev,               \* the row and label before has_rug_pull was flipped
    token_df,           \* plot_and_save_peaks: (TokenMint, BoostID) of the input rows
    max_boost_id,       \* plot_and_save_peaks: largest BoostID kept
    pc,                 \* plot_and_save_peaks: where the call is
    gi,                 \* groups of the loop already evaluated
    simulation_results, \* records collected by the loop, in loop order
    simulation_sorted,  \* the records sorted by event time
    ti,                 \* rows of the trade table already written
    final_trade,        \* the table loop's final_trade
    profit,             \* the table loop's profit
    total_profit,       \* accumulated profit
    simulation_table,   \* the trade table, one formatted row per record
    summary,            \* the metrics of the summary page
    summary_data,       \* the summary page as printed
    prices,             \* the extremum scan: the Price column, in time order
    distance,           \* the distance handed to find_peaks
    peaks,              \* the extremum scan: indices of the accepted peaks
    troughs,            \* the extremum scan: indices of the accepted troughs
    df_clean,           \* parse_price_history: the PriceHistory of one token
    df_prices,          \* summarize_token_behavior: the rows of one token
    df_summary          \* summarize_token_behavior: the summary row of that token

event_vars == <<df, tp_threshold, sl_threshold, data>>
label_vars == <<row, label, prev>>
input_vars == <<token_df, max_boost_id>>
table_vars == <<simulation_sorted, ti, final_trade, profit, total_profit, simulation_table>>
run_vars == <<token_df, max_boost_id, pc, gi, simulation_results, simulation_sorted, ti,
              final_trade, profit, total_profit, simulation_table, summary, summary_data>>

scan_vars == <<prices, distance, peaks, troughs>>
token_vars == <<df_clean, df_prices, df_summary>>

vars == <<df, tp_threshold, sl_threshold, data, row, label, prev, token_df, max_boost_id,
          pc, gi, simulation_results, simulation_sorted, ti, final_trade, profit,
          total_profit, simulation_table, summary, summary_data, prices, distance, peaks,
          troughs, df_clean, df_prices, df_summary>>

(***************************************************************************)
(* Bounds of the model.                                                    *)
(***************************************************************************)
MaxLen == 3             \* samples in one frame
MaxPrice == 3           \* largest price

\* as many offsets as a frame has samples; a price of 0 is invalid input
\* that nothing upstream filters out
Times == 0..(MaxLen - 1)
Prices == 0..MaxPrice

(***************************************************************************)
(* Float arithmetic: exact rationals plus nan, +inf, -inf.                 *)
(***************************************************************************)
Abs(i) == IF i < 0 THEN -i ELSE i

RECURSIVE GCD(_, _)
GCD(a, b) == IF b = 0 THEN a ELSE GCD(b, a % b)

NaN == [k |-> "nan", n |-> 0, d |-> 1]
PInf == [k |-> "pinf", n |-> 0, d |-> 1]
NInf == [k |-> "ninf", n |-> 0, d |-> 1]

\* n/d with d # 0, in lowest terms with a positive denominator
Fin(n, d) ==
    LET g == GCD(Abs(n), Abs(d))
        s == IF d < 0 THEN -1 ELSE 1
    IN [k |-> "fin", n |-> (s * n) \div g, d |-> Abs(d) \div g]

Sign(a) ==
    CASE a.k = "pinf" -> 1
      [] a.k = "ninf" -> -1
      [] a.k = "fin" -> (IF a.n > 0 THEN 1 ELSE IF a.n < 0 THEN -1 ELSE 0)
      [] OTHER -> 0

Inf(s) == IF s > 0 THEN PInf ELSE NInf

FAdd(a, b) ==
    IF a.k = "nan" \/ b.k = "nan" THEN NaN
    ELSE IF a.k = "fin" /\ b.k = "fin" THEN Fin(a.n * b.d + b.n * a.d, a.d * b.d)
    ELSE IF a.k = "fin" THEN b
    ELSE IF b.k = "fin" THEN a
    ELSE IF a = b THEN a ELSE NaN

FNeg(a) ==
    CASE a.k = "fin" -> Fin(-a.n, a.d)
      [] a.k = "pinf" -> NInf
      [] a.k = "ninf" -> PInf
      [] OTHER -> NaN

FSub(a, b) == FAdd(a, FNeg(b))

FMul(a, b) ==
    IF a.k = "nan" \/ b.k = "nan" THEN NaN
    ELSE IF a.k = "fin" /\ b.k = "fin" THEN Fin(a.n * b.n, a.d * b.d)
    ELSE IF Sign(a) * Sign(b) = 0 THEN NaN
    ELSE Inf(Sign(a) * Sign(b))

\* true division of numpy floats: x/0 is nan for x = 0, otherwise +-inf
FDiv(a, b) ==
    IF a.k = "nan" \/ b.k = "nan" THEN NaN
    ELSE IF b.k # "fin" THEN (IF a.k = "fin" THEN Fin(0, 1) ELSE NaN)
    ELSE IF b.n = 0 THEN (IF Sign(a) = 0 THEN NaN ELSE Inf(Sign(a)))
    ELSE IF a.k = "fin" THEN Fin(a.n * b.d, a.d * b.n)
    ELSE Inf(Sign(a) * Sign(b))

\* a < b; every comparison with nan is false
FLt(a, b) ==
    /\ a.k # "nan"
    /\ b.k # "nan"
    /\ IF a.k = "fin" /\ b.k = "fin" THEN a.n * b.d < b.n * a.d
       ELSE /\ a # b
            /\ (a.k = "ninf" \/ b.k = "pinf")

FGt(a, b) == FLt(b, a)

FLe(a, b) == a.k # "nan" /\ b.k # "nan" /\ ~FLt(b, a)

Num(i) == Fin(i, 1)

(***************************************************************************)
(* Frames: sequences of rows (TimeSinceBoostStart, Price), in any order.   *)
(***************************************************************************)
Rows == [TimeSinceBoostStart : Times, Price : Prices]

FramesOf(R, len) == UNION {[1..m -> R] : m \in 0..len}

\* df.sort_values(by='TimeSinceBoostStart'): the default sort is not stable,
\* so rows with equal offsets may come out in any order
IsSortedByTime(s) ==
    \A i \in 1..(Len(s) - 1) : s[i].TimeSinceBoostStart <= s[i + 1].TimeSinceBoostStart

\* every way of putting row r into the sorted frame s that keeps it sorted
Insertions(s, r) ==
    {SubSeq(s, 1, k) \o <<r>> \o SubSeq(s, k + 1, Len(s)) :
        k \in {j \in 0..Len(s) :
                  /\ \A i \in 1..j : s[i].TimeSinceBoostStart <= r.TimeSinceBoostStart
                  /\ \A i \in (j + 1)..Len(s) :
                        r.TimeSinceBoostStart <= s[i].TimeSinceBoostStart}}

\* the orders in which the sort may return the rows of f
RECURSIVE sort_values(_)
sort_values(f) ==
    IF Len(f) = 0 THEN {<<>>}
    ELSE UNION {Insertions(s, f[Len(f)]) : s \in sort_values(SubSeq(f, 1, Len(f) - 1))}

NoData == [raised |-> "not called"]

\* a take-profit filter that misses a price exactly on the boundary
tp_event_strict(s, initial_price, tp) ==
    SelectSeq(s, LAMBDA r : r.Price * 100 > initial_price * tp)

\* df[df['Price'] >= tp_value], tp_value = initial_price * tp_threshold
tp_event(s, initial_price, tp) ==
    SelectSeq(s, LAMBDA r : r.Price * 100 >= initial_price * tp)

\* df[df['Price'] <= sl_value], sl_value = initial_price * sl_threshold
sl_event(s, initial_price, sl) ==
    SelectSeq(s, LAMBDA r : r.Price * 100 <= initial_price * sl)

\* a resolution that gives an exact tie to the stop-loss
event_of_sl_on_tie(has_tp, has_sl, tp_time, sl_time) ==
    IF has_tp /\ has_sl
    THEN (IF tp_time < sl_time THEN "TP" ELSE "SL")
    ELSE IF has_tp THEN "TP"
    ELSE IF has_sl THEN "SL"
    ELSE "No trigger"

\* which crossing is the event, given which exist and their times
event_of(has_tp, has_sl, tp_time, sl_time) ==
    IF has_tp /\ has_sl
    THEN (IF tp_time <= sl_time THEN "TP" ELSE "SL")
    ELSE IF has_tp THEN "TP"
    ELSE IF has_sl THEN "SL"
    ELSE "No trigger"

\* a fallback that reports the first sample instead of the last
no_trigger_row_first(s) == s[1]

\* time_diff.iloc[-1], prices.iloc[-1]
no_trigger_row(s) == s[Len(s)]

\* ((event_price - initial_price) / initial_price) * 100
effect_of(event_price, initial_price) ==
    FMul(FDiv(Num(event_price - initial_price), Num(initial_price)), Num(100))

\* the body of calculate_event_data after the sort, on the sorted frame s
EventData(s, tp, sl) ==
    IF Len(s) = 0
    THEN [raised |-> "IndexError"]               \* prices.iloc[0] on an empty frame
    ELSE
    LET initial_price == s[1].Price
        tpe == tp_event(s, initial_price, tp)
        sle == sl_event(s, initial_price, sl)
        has_tp == Len(tpe) > 0
        has_sl == Len(sle) > 0
        event == event_of(has_tp, has_sl,
                          IF has_tp THEN tpe[1].TimeSinceBoostStart ELSE -1,
                          IF has_sl THEN sle[1].TimeSinceBoostStart ELSE -1)
        hit == CASE event = "TP" -> tpe[1]
                 [] event = "SL" -> sle[1]
                 [] OTHER -> no_trigger_row(s)
    IN [raised |-> "none",
        initial_price |-> initial_price,
        event |-> event,
        event_time |-> hit.TimeSinceBoostStart,
        event_price |-> hit.Price,
        effect |-> effect_of(hit.Price, initial_price)]

(***************************************************************************)
(* define_is_worth_it (target_definition.py).  Variations are in percent,  *)
(* times in seconds.                                                       *)
(***************************************************************************)
\* the rule with the fourth clause's drop bound made inclusive
define_is_worth_it_drop_inclusive(r) ==
    IF \/ (r.FirstTrigger = "TP" /\ r.HasRugPull = 0)
       \/ (r.FirstTrigger = "TP" /\ r.HasRugPull = 1
              /\ r.RugPullSeconds > r.SecondsTrigger + 30)
       \/ (r.MaxPriceVar >= 30 /\ r.MaxPriceSeconds < r.MinPriceSeconds)
       \/ (r.MaxPriceVar >= 30 /\ r.MinPriceVar <= -20
              /\ r.MinPriceSeconds < r.MaxPriceSeconds)
    THEN 1
    ELSE 0

\* the rule with the second clause's time margin made inclusive
define_is_worth_it_margin_inclusive(r) ==
    IF \/ (r.FirstTrigger = "TP" /\ r.HasRugPull = 0)
       \/ (r.FirstTrigger = "TP" /\ r.HasRugPull = 1
              /\ r.RugPullSeconds >= r.SecondsTrigger + 30)
       \/ (r.MaxPriceVar >= 30 /\ r.MaxPriceSeconds < r.MinPriceSeconds)
       \/ (r.MaxPriceVar >= 30 /\ r.MinPriceVar < -20
              /\ r.MinPriceSeconds < r.MaxPriceSeconds)
    THEN 1
    ELSE 0

define_is_worth_it(r) ==
    IF \/ (r.FirstTrigger = "TP" /\ r.HasRugPull = 0)
       \/ (r.FirstTrigger = "TP" /\ r.HasRugPull = 1
              /\ r.RugPullSeconds > r.SecondsTrigger + 30)
       \/ (r.MaxPriceVar >= 30 /\ r.MaxPriceSeconds < r.MinPriceSeconds)
       \/ (r.MaxPriceVar >= 30 /\ r.MinPriceVar < -20
              /\ r.MinPriceSeconds < r.MaxPriceSeconds)
    THEN 1
    ELSE 0

\* summary rows around every boundary of the rule
SummaryRows ==
    [FirstTrigger : {"TP", "SL", "No event"},
     HasRugPull : {0, 1},
     RugPullSeconds : {30, 31, 9999},
     SecondsTrigger : {0, 1},
     MaxPriceVar : {29, 30},
     MinPriceVar : {-21, -20},
     MaxPriceSeconds : Times,
     MinPriceSeconds : Times]

NoRow == [FirstTrigger |-> "none"]
NoLabel == [returned |-> FALSE]
Returned(v) == [returned |-> TRUE, value |-> v]
NoPrev == [label |-> NoLabel]

\* TP/SL ratios the program is run with (defaults of plot_and_save_peaks
\* and plot_with_peaks_by_token_mint), in hundredths
Thresholds == {<<150, 65>>, <<105, 95>>}

(***************************************************************************)
(* The extremum scan of calculate_event_data: find_peaks of scipy.signal,  *)
(* called with distance only, on the prices and on the negated prices.     *)
(* Indices count from 0, as in the arrays the call returns.                *)
(***************************************************************************)
MaxScanLen == 7         \* samples in a scanned series
MaxDistance == 3        \* largest distance handed to the scan

\* four price levels: three different peak heights over a floor
ScanPrices == 0..3
PriceSeries == UNION {[1..n -> ScanPrices] : n \in 0..MaxScanLen}
Distances == 1..MaxDistance

\* config.get("distance", 10)
distance_default == 10

NoScan == [raised |-> "not called"]

negated(x) == [i \in DOMAIN x |-> -x[i]]

\* the last index of the flat run that starts at index i
RECURSIVE plateau_end(_, _, _)
plateau_end(x, i, i_ahead) ==
    IF i_ahead < Len(x) - 1 /\ x[i_ahead + 1] = x[i + 1]
    THEN plateau_end(x, i, i_ahead + 1)
    ELSE i_ahead

\* the candidates: an inner sample, or the middle of an inner flat run, that
\* rises from its left neighbour and falls to its right neighbour
RECURSIVE local_maxima_from(_, _)
local_maxima_from(x, i) ==
    IF i >= Len(x) - 1
    THEN <<>>
    ELSE IF x[i] < x[i + 1]
         THEN LET i_ahead == plateau_end(x, i, i + 1)
              IN IF x[i_ahead + 1] < x[i + 1]
                 THEN <<(i + i_ahead - 1) \div 2>> \o local_maxima_from(x, i_ahead + 1)
                 ELSE local_maxima_from(x, i + 1)
         ELSE local_maxima_from(x, i + 1)

\* candidates that also take a last sample that rises from its neighbour
local_maxima_with_edges(x) ==
    local_maxima_from(x, 1)
        \o (IF Len(x) >= 2 /\ x[Len(x) - 1] < x[Len(x)] THEN <<Len(x) - 1>> ELSE <<>>)

local_maxima(x) == local_maxima_from(x, 1)

priority_of(x, pk) == [k \in DOMAIN pk |-> x[pk[k] + 1]]

\* np.argsort(priority): the positions in increasing priority; the order of
\* equal priorities is left open
argsort(priority) ==
    LET m == Len(priority)
    IN {o \in [1..m -> 1..m] :
           /\ \A a, b \in 1..m : a # b => o[a] # o[b]
           /\ \A a \in 1..(m - 1) : priority[o[a]] <= priority[o[a + 1]]}

\* from the highest priority down: a candidate still kept removes every
\* other candidate closer than d
RECURSIVE suppress(_, _, _, _, _)
suppress(pk, order, d, i, keep) ==
    IF i = 0
    THEN keep
    ELSE LET j == order[i]
         IN IF ~keep[j]
            THEN suppress(pk, order, d, i - 1, keep)
            ELSE suppress(pk, order, d, i - 1,
                          [k \in DOMAIN keep |->
                              IF k # j /\ Abs(pk[j] - pk[k]) < d THEN FALSE ELSE keep[k]])

\* a selection that lets candidates stand one sample closer
select_by_peak_distance_one_closer(pk, order, d) ==
    suppress(pk, order, d - 1, Len(pk), [k \in DOMAIN pk |-> TRUE])

\* a selection that walks from the lowest priority up
select_by_peak_distance_lowest_first(pk, order, d) ==
    suppress(pk, [k \in DOMAIN order |-> order[Len(order) + 1 - k]], d, Len(pk),
             [k \in DOMAIN pk |-> TRUE])

select_by_peak_distance(pk, order, d) ==
    suppress(pk, order, d, Len(pk), [k \in DOMAIN pk |-> TRUE])

find_peaks_raises(d) == d < 1

\* the outcomes of find_peaks(x, distance=d), one for each order np.argsort
\* may give to equal priorities
find_peaks(x, d) ==
    IF find_peaks_raises(d)
    THEN {[raised |-> "ValueError"]}
    ELSE LET pk == local_maxima(x)
         IN {LET keep == select_by_peak_distance(pk, order, d)
             IN [raised |-> "", idx |-> {pk[k] : k \in {k \in DOMAIN pk : keep[k]}}] :
                order \in argsort(priority_of(x, pk))}

ScanNotStarted ==
    /\ prices = <<>>
    /\ peaks = NoScan
    /\ troughs = NoScan

NoTokenRows == <<>>
NoTokenSummary == [raised |-> "not called"]

TokenNotStarted ==
    /\ df_clean = NoTokenRows
    /\ df_prices = NoTokenRows
    /\ df_summary = NoTokenSummary

(***************************************************************************)
(* plot_and_save_peaks (plot_utils.py): the loop over (token, boost)       *)
(* groups, the trade table and the summary page.  Drawing and saving the   *)
(* figures belongs to matplotlib and changes none of this state.           *)
(***************************************************************************)
MaxGroups == 2          \* (TokenMint, BoostID) groups in the input

initial_trade == 200

Tokens == {"A", "B"}
BoostIDs == {1, 2}
GroupKeys == [TokenMint : Tokens, BoostID : BoostIDs]

\* the input's groups in the order their first rows appear, each key once
TokenDfs ==
    {g \in FramesOf(GroupKeys, MaxGroups) : \A i, j \in DOMAIN g : i # j => g[i] # g[j]}

\* frames the groups of a run are drawn from: a take-profit (+50 %), a
\* stop-loss on the rug-pull bound (-50 %), no trigger above, below and at the
\* start price, rows given out of order, two rows sharing an offset, and a
\* start price of zero
RunFrames ==
    {<<[TimeSinceBoostStart |-> 0, Price |-> 2], [TimeSinceBoostStart |-> 1, Price |-> 3]>>,
     <<[TimeSinceBoostStart |-> 1, Price |-> 2], [TimeSinceBoostStart |-> 0, Price |-> 4]>>,
     <<[TimeSinceBoostStart |-> 0, Price |-> 3], [TimeSinceBoostStart |-> 1, Price |-> 4]>>,
     <<[TimeSinceBoostStart |-> 0, Price |-> 2], [TimeSinceBoostStart |-> 0, Price |-> 3]>>,
     <<[TimeSinceBoostStart |-> 0, Price |-> 3]>>,
     <<[TimeSinceBoostStart |-> 0, Price |-> 0]>>}

Unset == [k |-> "unset", n |-> 0, d |-> 1]
NoSummary == [computed |-> FALSE]

\* token_df[token_df['BoostID'] <= max_boost_id]
filtered_tokens(tdf, max_id) == SelectSeq(tdf, LAMBDA g : g.BoostID <= max_id)

\* the nested loops: tokens in order of first appearance (unique()), and for
\* each token its groups in order of appearance
RECURSIVE loop_order(_)
loop_order(g) ==
    IF Len(g) = 0 THEN <<>>
    ELSE SelectSeq(g, LAMBDA x : x.TokenMint = g[1].TokenMint)
           \o loop_order(SelectSeq(g, LAMBDA x : x.TokenMint # g[1].TokenMint))

Groups == loop_order(filtered_tokens(token_df, max_boost_id))

\* the record appended for a group
result_record(token_mint, d) ==
    [TokenMint |-> token_mint,
     Initial_Price |-> d.initial_price,
     Event |-> d.event,
     Final_Price |-> d.event_price,
     TimeSinceBoost |-> d.event_time,
     Effect |-> d.effect]

\* a sort that puts a record before the earlier records of the same time
RECURSIVE sorted_by_time_unstable(_)
sorted_by_time_unstable(rs) ==
    IF Len(rs) = 0 THEN <<>>
    ELSE LET init == sorted_by_time_unstable(SubSeq(rs, 1, Len(rs) - 1))
             r == rs[Len(rs)]
             k == Cardinality({i \in DOMAIN init : init[i].TimeSinceBoost < r.TimeSinceBoost})
         IN SubSeq(init, 1, k) \o <<r>> \o SubSeq(init, k + 1, Len(init))

\* sorted(simulation_results, key=lambda x: x['TimeSinceBoost']): stable
RECURSIVE sorted_by_time(_)
sorted_by_time(rs) ==
    IF Len(rs) = 0 THEN <<>>
    ELSE LET init == sorted_by_time(SubSeq(rs, 1, Len(rs) - 1))
             r == rs[Len(rs)]
             k == Cardinality({i \in DOMAIN init : init[i].TimeSinceBoost <= r.TimeSinceBoost})
         IN SubSeq(init, 1, k) \o <<r>> \o SubSeq(init, k + 1, Len(init))

\* a payout that takes the percentage for a fraction
final_trade_of_fraction(effect) ==
    FMul(Num(initial_trade), FAdd(Num(1), effect))

\* initial_trade * (1 + r['Effect (%)'] / 100)
final_trade_of(effect) ==
    FMul(Num(initial_trade), FAdd(Num(1), FDiv(effect, Num(100))))

\* final_trade - initial_trade
profit_of(ft) == FSub(ft, Num(initial_trade))

\* n/d rounded to the nearest integer, halves to even
RoundHalfEven(n, d) ==
    LET q == n \div d
        r == n % d
    IN IF 2 * r < d THEN q
       ELSE IF 2 * r > d THEN q + 1
       ELSE IF q % 2 = 0 THEN q ELSE q + 1

\* f"{x:.2f}" and f"{x:.1f}": the number of 10^-dec units printed, or the
\* word printed for nan and the infinities
Pow10(dec) == IF dec = 1 THEN 10 ELSE 100
Format(x, dec) ==
    IF x.k = "fin"
    THEN [k |-> "fin", units |-> RoundHalfEven(x.n * Pow10(dec), x.d), dec |-> dec]
    ELSE [k |-> x.k, units |-> 0, dec |-> dec]

table_row(r, ft, pr) ==
    [TokenMint |-> r.TokenMint,
     Event |-> r.Event,
     Effect |-> Format(r.Effect, 2),
     Initial_Capital |-> Format(Num(initial_trade), 2),
     Final_Capital |-> Format(ft, 2),
     Profit |-> Format(pr, 2)]

\* Python's a / b on its own numbers: a zero divisor raises
ZeroDivisionError == [k |-> "ZeroDivisionError", n |-> 0, d |-> 1]
PyDiv(a, b) == IF b.k = "fin" /\ b.n = 0 THEN ZeroDivisionError ELSE FDiv(a, b)

\* sum(r['Effect (%)'] for r in rs)
RECURSIVE SumEffect(_)
SumEffect(rs) ==
    IF Len(rs) = 0 THEN Num(0)
    ELSE FAdd(SumEffect(SubSeq(rs, 1, Len(rs) - 1)), rs[Len(rs)].Effect)

TokenSet(rs) == {rs[i].TokenMint : i \in DOMAIN rs}

overall_percentage_of(tp_total, total_trades) ==
    IF total_trades > 0
    THEN FMul(PyDiv(tp_total, FMul(Num(initial_trade), Num(total_trades))), Num(100))
    ELSE Num(0)

\* a win test that also counts a trade that ends on its start price
IsWin_or_flat(r) == FLe(Num(0), r.Effect)

IsWin(r) == FGt(r.Effect, Num(0))

\* the win rate without its guard against an empty record list
win_rate_of_unguarded(rs, total_trades) ==
    FMul(PyDiv(Num(Len(SelectSeq(rs, IsWin))), Num(total_trades)), Num(100))

win_rate_of(rs, total_trades) ==
    IF total_trades > 0
    THEN FMul(PyDiv(Num(Len(SelectSeq(rs, IsWin))), Num(total_trades)), Num(100))
    ELSE Num(0)

avg_effect_of(rs, total_trades) ==
    IF total_trades > 0 THEN PyDiv(SumEffect(rs), Num(total_trades)) ELSE Num(0)

IsRugPull(r) == FLe(r.Effect, Num(-50))

\* a rug-pull rate that counts records instead of distinct tokens
rugpull_percentage_of_per_record(rs) ==
    LET unique_tokens == TokenSet(rs)
    IN IF unique_tokens # {}
       THEN FMul(PyDiv(Num(Len(SelectSeq(rs, IsRugPull))), Num(Cardinality(unique_tokens))),
                 Num(100))
       ELSE Num(0)

rugpull_percentage_of(rs) ==
    LET unique_tokens == TokenSet(rs)
        rugpull_tokens == TokenSet(SelectSeq(rs, IsRugPull))
    IN IF unique_tokens # {}
       THEN FMul(PyDiv(Num(Cardinality(rugpull_tokens)), Num(Cardinality(unique_tokens))),
                 Num(100))
       ELSE Num(0)

\* a summary whose negative no-trigger tally also takes the trades that end
\* on their start price
summary_of_flat_as_negative(rs, tp_total) ==
    LET total_trades == Len(rs)
    IN [computed |-> TRUE,
        total_trades |-> total_trades,
        overall_percentage |-> overall_percentage_of(tp_total, total_trades),
        count_tp |-> Len(SelectSeq(rs, LAMBDA r : r.Event = "TP")),
        count_sl |-> Len(SelectSeq(rs, LAMBDA r : r.Event = "SL")),
        count_no_positive |->
            Len(SelectSeq(rs, LAMBDA r : r.Event = "No trigger" /\ FGt(r.Effect, Num(0)))),
        count_no_negative |->
            Len(SelectSeq(rs, LAMBDA r : r.Event = "No trigger" /\ FLe(r.Effect, Num(0)))),
        win_rate |-> win_rate_of(rs, total_trades),
        avg_effect |-> avg_effect_of(rs, total_trades),
        rugpull_percentage |-> rugpull_percentage_of(rs),
        total_profit |-> tp_total]

summary_of(rs, tp_total) ==
    LET total_trades == Len(rs)
    IN [computed |-> TRUE,
        total_trades |-> total_trades,
        overall_percentage |-> overall_percentage_of(tp_total, total_trades),
        count_tp |-> Len(SelectSeq(rs, LAMBDA r : r.Event = "TP")),
        count_sl |-> Len(SelectSeq(rs, LAMBDA r : r.Event = "SL")),
        count_no_positive |->
            Len(SelectSeq(rs, LAMBDA r : r.Event = "No trigger" /\ FGt(r.Effect, Num(0)))),
        count_no_negative |->
            Len(SelectSeq(rs, LAMBDA r : r.Event = "No trigger" /\ FLt(r.Effect, Num(0)))),
        win_rate |-> win_rate_of(rs, total_trades),
        avg_effect |-> avg_effect_of(rs, total_trades),
        rugpull_percentage |-> rugpull_percentage_of(rs),
        total_profit |-> tp_total]

summary_data_of(m) ==
    [TP |-> m.count_tp,
     SL |-> m.count_sl,
     No_trigger_positive |-> m.count_no_positive,
     No_trigger_negative |-> m.count_no_negative,
     Total_trades |-> m.total_trades,
     Win_rate |-> Format(m.win_rate, 1),
     Avg_Effect |-> Format(m.avg_effect, 2),
     Rugpull |-> Format(m.rugpull_percentage, 1),
     Total_Profit |-> Format(m.total_profit, 2),
     Overall |-> Format(m.overall_percentage, 1)]

(***************************************************************************)
(* parse_price_history (preprocessing.py) and summarize_token_behavior     *)
(* (pipeline.py) for the rows of one token.  A time is the offset in       *)
(* seconds from DetectedAt; a price variation is kept in hundredths of a   *)
(* percent, the two decimals round(2) leaves.                              *)
(***************************************************************************)
\* def parse_price_history(df, tp=35, sl=-40), in percent
parse_tp == 35
parse_sl == 0 - 40

\* the entries of a PriceHistory, in the order stored; prices are positive
HistoryEntries == [TimeSinceBoostStart : Times, price : 1..MaxPrice]
Histories == FramesOf(HistoryEntries, MaxLen) \ {<<>>}

PriceVariation(price, StartPrice) == RoundHalfEven((price - StartPrice) * 10000, StartPrice)

Trigger(variation) ==
    IF variation >= parse_tp * 100 THEN "TP"
    ELSE IF variation <= parse_sl * 100 THEN "SL"
    ELSE "No event"

\* one row for each entry; StartPrice is the price of the first entry
PriceRows(history) ==
    LET StartPrice == history[1].price
    IN [i \in DOMAIN history |->
           LET variation == PriceVariation(history[i].price, StartPrice)
           IN [TimeSinceBoostStart |-> history[i].TimeSinceBoostStart,
               price |-> history[i].price,
               PriceVariation |-> variation,
               Trigger |-> Trigger(variation)]]

\* idxmax and idxmin of a column: the first row that holds the extreme value
idxmax(col) ==
    CHOOSE i \in DOMAIN col :
        /\ \A j \in DOMAIN col : col[j] <= col[i]
        /\ \A j \in 1..(i - 1) : col[j] < col[i]
idxmin(col) ==
    CHOOSE i \in DOMAIN col :
        /\ \A j \in DOMAIN col : col[i] <= col[j]
        /\ \A j \in 1..(i - 1) : col[i] < col[j]

\* "PriceVariation_%": ["max", "min"]
MaxPriceVar(rows) ==
    LET col == [i \in DOMAIN rows |-> rows[i].PriceVariation] IN col[idxmax(col)]
MinPriceVar(rows) ==
    LET col == [i \in DOMAIN rows |-> rows[i].PriceVariation] IN col[idxmin(col)]

\* "TimeSinceBoostStart": ["idxmax", "idxmin"]
MaxPriceIdx(rows) == idxmax([i \in DOMAIN rows |-> rows[i].TimeSinceBoostStart])
MinPriceIdx(rows) == idxmin([i \in DOMAIN rows |-> rows[i].TimeSinceBoostStart])

\* the order of the Trigger strings: "No event" < "SL" < "TP"
StringRank(t) == IF t = "TP" THEN 2 ELSE IF t = "SL" THEN 1 ELSE 0

\* groupby(...)['Trigger'].idxmax() on a column of strings: pandas refuses
\* the reduction for an object column and takes the greatest string for a
\* string column; which one the column is depends on the pandas version
TriggerIdxmax(rows) ==
    {[raised |-> "TypeError"],
     [raised |-> "", idx |-> idxmax([i \in DOMAIN rows |-> StringRank(rows[i].Trigger)])]}

TokenSummary(rows) ==
    {IF t.raised # ""
     THEN [raised |-> t.raised]
     ELSE LET r == [FirstTrigger |-> rows[1].Trigger,
                    MaxPriceVar |-> MaxPriceVar(rows),
                    MinPriceVar |-> MinPriceVar(rows),
                    MaxPriceSeconds |-> rows[MaxPriceIdx(rows)].TimeSinceBoostStart,
                    MinPriceSeconds |-> rows[MinPriceIdx(rows)].TimeSinceBoostStart,
                    SecondsTrigger |-> rows[t.idx].TimeSinceBoostStart,
                    HasRugPull |-> 0,
                    RugPullSeconds |-> 9999]
              \* whole percents, rounded down, compare with 30 and -20 as
              \* the variations do
              whole == [r EXCEPT !.MaxPriceVar = r.MaxPriceVar \div 100,
                                 !.MinPriceVar = r.MinPriceVar \div 100]
          IN [raised |-> "", row |-> r, IsWorthIt |-> define_is_worth_it(whole)] :
        t \in TriggerIdxmax(rows)}

\* the thresholds and the distance a caller may hand over: the defaults, and
\* values the configuration contract excludes (a take-profit and a stop-loss
\* ratio of 1.0, a distance of 0)
RunThresholds == {<<150, 65>>, <<100, 100>>}
RunDistances == {0, distance_default}

RunNotStarted ==
    /\ token_df = <<>>
    /\ max_boost_id = 1
    /\ pc = "idle"
    /\ gi = 0
    /\ simulation_results = <<>>
    /\ simulation_sorted = <<>>
    /\ ti = 0
    /\ final_trade = Unset
    /\ profit = Unset
    /\ total_profit = Unset
    /\ simulation_table = <<>>
    /\ summary = NoSummary
    /\ summary_data = NoSummary

\* plot_and_save_peaks takes its thresholds and its distance from the caller;
\* main.py hands over the configured distance and leaves the thresholds at
\* their defaults 1.5 and 0.65
Init ==
    /\ token_df \in TokenDfs
    /\ max_boost_id \in BoostIDs
    /\ \E th \in RunThresholds : tp_threshold = th[1] /\ sl_threshold = th[2]
    /\ df = <<>>
    /\ data = NoData
    /\ row = NoRow
    /\ label = NoLabel
    /\ prev = NoPrev
    /\ pc = "groups"
    /\ gi = 0
    /\ simulation_results = <<>>
    /\ simulation_sorted = <<>>
    /\ ti = 0
    /\ final_trade = Unset
    /\ profit = Unset
    /\ total_profit = Unset
    /\ simulation_table = <<>>
    /\ summary = NoSummary
    /\ summary_data = NoSummary
    /\ distance \in RunDistances
    /\ ScanNotStarted
    /\ TokenNotStarted

\* one pass of the loop body: evaluate the next group and append its record
ProcessGroup ==
    /\ pc = "groups"
    /\ gi < Len(Groups)
    /\ ~find_peaks_raises(distance)
    /\ \E f \in RunFrames : \E s \in sort_values(f) :
          LET d == EventData(s, tp_threshold, sl_threshold)
          IN /\ df' = f
             /\ data' = d
             /\ simulation_results' =
                    Append(simulation_results, result_record(Groups[gi + 1].TokenMint, d))
    /\ gi' = gi + 1
    /\ UNCHANGED <<tp_threshold, sl_threshold, label_vars, input_vars, pc, table_vars,
                   scan_vars, token_vars,
                   summary, summary_data>>

\* the loop body when find_peaks refuses the distance: the ValueError leaves
\* calculate_event_data and plot_and_save_peaks, which catch nothing; main
\* prints it and ends
ProcessGroupRaises ==
    /\ pc = "groups"
    /\ gi < Len(Groups)
    /\ find_peaks_raises(distance)
    /\ \E f \in RunFrames : df' = f
    /\ pc' = "raised"
    /\ UNCHANGED <<tp_threshold, sl_threshold, data, label_vars, input_vars, gi,
                   simulation_results, table_vars, summary, summary_data, scan_vars,
                   token_vars>>

\* a sort that does not wait for the last group
SortResults_before_last_group ==
    /\ pc = "groups"
    /\ gi >= 1
    /\ simulation_sorted' = sorted_by_time(simulation_results)
    /\ simulation_table' = <<>>
    /\ total_profit' = Num(0)
    /\ pc' = "table"
    /\ UNCHANGED <<event_vars, label_vars, input_vars, gi, simulation_results, ti,
                   scan_vars, token_vars,
                   final_trade, profit, summary, summary_data>>

\* after the last group: sort the records and start the trade table
SortResults ==
    /\ pc = "groups"
    /\ gi = Len(Groups)
    /\ simulation_sorted' = sorted_by_time(simulation_results)
    /\ simulation_table' = <<>>
    /\ total_profit' = Num(0)
    /\ pc' = "table"
    /\ UNCHANGED <<event_vars, label_vars, input_vars, gi, simulation_results, ti,
                   scan_vars, token_vars,
                   final_trade, profit, summary, summary_data>>

\* one pass of the table loop
SimulateTrade ==
    /\ pc = "table"
    /\ ti < Len(simulation_sorted)
    /\ LET r == simulation_sorted[ti + 1]
           ft == final_trade_of(r.Effect)
           pr == profit_of(ft)
       IN /\ final_trade' = ft
          /\ profit' = pr
          /\ total_profit' = FAdd(total_profit, pr)
          /\ simulation_table' = Append(simulation_table, table_row(r, ft, pr))
    /\ ti' = ti + 1
    /\ UNCHANGED <<event_vars, label_vars, input_vars, pc, gi, simulation_results,
                   scan_vars, token_vars,
                   simulation_sorted, summary, summary_data>>

\* after the last row: the metrics of the summary page
Summarize ==
    /\ pc = "table"
    /\ ti = Len(simulation_sorted)
    /\ summary' = summary_of(simulation_results, total_profit)
    /\ summary_data' = summary_data_of(summary')
    /\ pc' = "done"
    /\ UNCHANGED <<event_vars, label_vars, input_vars, gi, simulation_results, table_vars,
                   scan_vars, token_vars>>

Next == ProcessGroup \/ ProcessGroupRaises \/ SortResults \/ SimulateTrade \/ Summarize

Spec == Init /\ [][Next]_vars

(***************************************************************************)
(* SpecEvent: one call of calculate_event_data on any frame.               *)
(***************************************************************************)
InitEvent ==
    /\ df \in FramesOf(Rows, MaxLen)
    /\ \E th \in Thresholds : tp_threshold = th[1] /\ sl_threshold = th[2]
    /\ data = NoData
    /\ row = NoRow
    /\ label = NoLabel
    /\ prev = NoPrev
    /\ RunNotStarted
    /\ distance = distance_default
    /\ ScanNotStarted
    /\ TokenNotStarted

calculate_event_data ==
    /\ data = NoData
    /\ \E s \in sort_values(df) : data' = EventData(s, tp_threshold, sl_threshold)
    /\ UNCHANGED <<df, tp_threshold, sl_threshold, label_vars, run_vars, scan_vars,
                   token_vars>>

NextEvent == calculate_event_data

SpecEvent == InitEvent /\ [][NextEvent]_vars

(***************************************************************************)
(* SpecLabel: define_is_worth_it applied to a summary row, and again after *)
(* the caller sets has_rug_pull on that row.                               *)
(***************************************************************************)
InitLabel ==
    /\ df = <<>>
    /\ tp_threshold = 150
    /\ sl_threshold = 65
    /\ data = NoData
    /\ row \in SummaryRows
    /\ label = NoLabel
    /\ prev = NoPrev
    /\ RunNotStarted
    /\ distance = distance_default
    /\ ScanNotStarted
    /\ TokenNotStarted

ApplyLabel ==
    /\ label = NoLabel
    /\ label' = Returned(define_is_worth_it(row))
    /\ UNCHANGED <<event_vars, row, prev, run_vars, scan_vars, token_vars>>

FlipRugPull ==
    /\ label.returned
    /\ prev = NoPrev
    /\ row.HasRugPull = 0
    /\ prev' = [row |-> row, label |-> label]
    /\ row' = [row EXCEPT !.HasRugPull = 1]
    /\ label' = NoLabel
    /\ UNCHANGED <<event_vars, run_vars, scan_vars, token_vars>>

NextLabel == ApplyLabel \/ FlipRugPull

SpecLabel == InitLabel /\ [][NextLabel]_vars

(***************************************************************************)
(* SpecPeaks: the extremum scan on any series of prices in time order.     *)
(***************************************************************************)
InitPeaks ==
    /\ prices \in PriceSeries
    /\ distance \in Distances
    /\ peaks = NoScan
    /\ troughs = NoScan
    /\ df = <<>>
    /\ tp_threshold = 150
    /\ sl_threshold = 65
    /\ data = NoData
    /\ row = NoRow
    /\ label = NoLabel
    /\ prev = NoPrev
    /\ RunNotStarted
    /\ TokenNotStarted

FindPeaks ==
    /\ peaks = NoScan
    /\ peaks' \in find_peaks(prices, distance)
    /\ troughs' \in find_peaks(negated(prices), distance)
    /\ UNCHANGED <<event_vars, label_vars, run_vars, prices, distance, token_vars>>

NextPeaks == FindPeaks

SpecPeaks == InitPeaks /\ [][NextPeaks]_vars

(***************************************************************************)
(* SpecSummary: parse_price_history and summarize_token_behavior on the    *)
(* price history of one token.                                             *)
(***************************************************************************)
InitSummary ==
    /\ df_clean \in Histories
    /\ df_prices = NoTokenRows
    /\ df_summary = NoTokenSummary
    /\ df = <<>>
    /\ tp_threshold = 150
    /\ sl_threshold = 65
    /\ data = NoData
    /\ row = NoRow
    /\ label = NoLabel
    /\ prev = NoPrev
    /\ RunNotStarted
    /\ distance = distance_default
    /\ ScanNotStarted

parse_price_history ==
    /\ df_prices = NoTokenRows
    /\ df_prices' = PriceRows(df_clean)
    /\ UNCHANGED <<event_vars, label_vars, run_vars, scan_vars, df_clean, df_summary>>

summarize_token_behavior ==
    /\ df_prices # NoTokenRows
    /\ df_summary = NoTokenSummary
    /\ df_summary' \in TokenSummary(df_prices)
    /\ UNCHANGED <<event_vars, label_vars, run_vars, scan_vars, df_clean, df_prices>>

NextSummary == parse_price_history \/ summarize_token_behavior

SpecSummary == InitSummary /\ [][NextSummary]_vars

(***************************************************************************)
(* Properties of calculate_event_data (checked under SpecEvent).           *)
(***************************************************************************)
MinOf(S) == CHOOSE x \in S : \A y \in S : x <= y
MaxOf(S) == CHOOSE x \in S : \A y \in S : x >= y

Called == data.raised = "none"
ValidThresholds == tp_threshold > 100 /\ sl_threshold > 0 /\ sl_threshold < 100
IsUnsorted == \E i, j \in DOMAIN df :
                 i < j /\ df[i].TimeSinceBoostStart > df[j].TimeSinceBoostStart

\* samples of the input at or beyond each boundary of the start price
TpIdx == {i \in DOMAIN df : df[i].Price * 100 >= data.initial_price * tp_threshold}
SlIdx == {i \in DOMAIN df : df[i].Price * 100 <= data.initial_price * sl_threshold}
TimesAt(I) == {df[i].TimeSinceBoostStart : i \in I}
t_tp == MinOf(TimesAt(TpIdx))
t_sl == MinOf(TimesAt(SlIdx))

\* the result is `kind`, at time t, with the price of a sample of I at t
EventIs(kind, t, I) ==
    /\ data.event = kind
    /\ data.event_time = t
    /\ \E i \in I : df[i].TimeSinceBoostStart = t /\ df[i].Price = data.event_price

\* the start price is the price of a sample with the smallest offset
StartIsEarliest ==
    \E i \in DOMAIN df :
        /\ df[i].Price = data.initial_price
        /\ \A j \in DOMAIN df : df[i].TimeSinceBoostStart <= df[j].TimeSinceBoostStart

\* C1: with tp_ratio > 1 and 0 < sl_ratio < 1, when both boundaries are
\* crossed the crossing with the strictly earlier time is returned, with the
\* time and price of its first crossing sample; when only one boundary is
\* crossed that crossing is returned.
C1_EarlierCrossingWins ==
    (Called /\ ValidThresholds) =>
        /\ StartIsEarliest
        /\ (TpIdx # {} /\ SlIdx # {} /\ t_tp < t_sl) => EventIs("TP", t_tp, TpIdx)
        /\ (TpIdx # {} /\ SlIdx # {} /\ t_sl < t_tp) => EventIs("SL", t_sl, SlIdx)
        /\ (TpIdx # {} /\ SlIdx = {}) => EventIs("TP", t_tp, TpIdx)
        /\ (TpIdx = {} /\ SlIdx # {}) => EventIs("SL", t_sl, SlIdx)

\* a frame given out of time order whose stop-loss crossing comes first
C1_Witness ==
    /\ Called /\ ValidThresholds /\ IsUnsorted
    /\ TpIdx # {} /\ SlIdx # {} /\ t_sl < t_tp
    /\ data.event = "SL"

\* C2: when the first take-profit crossing and the first stop-loss crossing
\* have the same time, the result is TP with the time and price of the
\* take-profit crossing.
C2_TieGoesToTakeProfit ==
    (Called /\ TpIdx # {} /\ SlIdx # {} /\ t_tp = t_sl) => EventIs("TP", t_tp, TpIdx)

\* two different samples share the offset of both first crossings
C2_Witness ==
    /\ Called /\ data.initial_price > 0
    /\ TpIdx # {} /\ SlIdx # {} /\ t_tp = t_sl /\ t_tp > 0
    /\ data.event = "TP"

\* C3: when no sample crosses either boundary the result is 'No trigger' with
\* the time and price of the last sample in time order, and
\* effect = (last_price - start_price) / start_price * 100.
C3_NoTriggerIsLastSample ==
    (Called /\ TpIdx = {} /\ SlIdx = {}) =>
        /\ EventIs("No trigger", MaxOf(TimesAt(DOMAIN df)), DOMAIN df)
        /\ data.effect.k = "fin"
        /\ data.effect.n * data.initial_price
             = (data.event_price - data.initial_price) * 100 * data.effect.d

\* an unsorted frame that ends away from its start price without a crossing
C3_Witness ==
    /\ Called /\ IsUnsorted /\ TpIdx = {} /\ SlIdx = {}
    /\ data.event = "No trigger"
    /\ data.event_price # data.initial_price

\* C4: an empty series, or a start price of zero or less, makes the call fail;
\* no result is returned for it.
C4_InvalidSeriesFails ==
    (Len(df) = 0 /\ data.raised # "not called") \/ (Called /\ data.initial_price <= 0)
        => data.raised # "none"

(***************************************************************************)
(* Properties of define_is_worth_it (checked under SpecLabel).             *)
(***************************************************************************)
Clause1(r) == r.FirstTrigger = "TP" /\ r.HasRugPull = 0
Clause2(r) == /\ r.FirstTrigger = "TP" /\ r.HasRugPull = 1
              /\ r.RugPullSeconds > r.SecondsTrigger + 30
Clause3(r) == r.MaxPriceVar >= 30 /\ r.MaxPriceSeconds < r.MinPriceSeconds
Clause4(r) == /\ r.MaxPriceVar >= 30 /\ r.MinPriceVar < -20
              /\ r.MinPriceSeconds < r.MaxPriceSeconds

\* C5: the label is 1 exactly when one of the four clauses holds and 0
\* otherwise; clauses 3 and 4 never hold together and neither holds when the
\* two extremum times are equal.
C5_LabelIsOrOfFourClauses ==
    label.returned =>
        /\ label.value \in {0, 1}
        /\ label.value = 1 <=> (Clause1(row) \/ Clause2(row) \/ Clause3(row) \/ Clause4(row))
        /\ ~(Clause3(row) /\ Clause4(row))
        /\ row.MaxPriceSeconds = row.MinPriceSeconds => ~Clause3(row) /\ ~Clause4(row)

\* a row labelled 0 although the rise is large and comes after the low,
\* because the low is exactly -20
C5_Witness ==
    /\ label.returned /\ label.value = 0
    /\ row.MaxPriceVar >= 30 /\ row.MinPriceVar = -20
    /\ row.MinPriceSeconds < row.MaxPriceSeconds

\* the row was labelled 1 on a take-profit, then has_rug_pull was set with
\* the rug pull inside the 30 s margin, and the row was labelled again
FlippedInsideMargin ==
    /\ prev # NoPrev /\ prev.label.value = 1 /\ prev.row.FirstTrigger = "TP"
    /\ row = [prev.row EXCEPT !.HasRugPull = 1]
    /\ row.RugPullSeconds <= row.SecondsTrigger + 30
    /\ label.returned

\* C6 as stated: after such a flip the label is 0.
C6_FlipAlwaysClears == FlippedInsideMargin => label.value = 0

\* C6 amended: after such a flip the label is 0 unless clause 3 or clause 4
\* holds for the row, in which case it stays 1.
C6_FlipClearsUnlessPriceClause ==
    FlippedInsideMargin => (label.value = 0 <=> ~(Clause3(row) \/ Clause4(row)))

\* a flip on the boundary of the margin that clears the label
C6_Witness ==
    /\ FlippedInsideMargin /\ label.value = 0
    /\ row.RugPullSeconds = row.SecondsTrigger + 30

(***************************************************************************)
(* Properties of the trade simulation (checked under Spec).                *)
(***************************************************************************)
\* the sum over the first n records of rs of 2 * effect: the profit of a
\* stake of 200 is 200 * effect / 100
RECURSIVE SumTwiceEffect(_, _)
SumTwiceEffect(rs, n) ==
    IF n = 0 THEN Num(0)
    ELSE FAdd(SumTwiceEffect(rs, n - 1), FMul(Num(2), rs[n].Effect))

\* x = 200 * (1 + e/100) and y = x - 200, by cross-multiplication
IsPayoutAndProfit(x, y, e) ==
    IF e.k = "fin"
    THEN /\ x.k = "fin" /\ y.k = "fin"
         /\ x.n * e.d * 100 = 200 * (100 * e.d + e.n) * x.d
         /\ y.n * x.d = (x.n - 200 * x.d) * y.d
    ELSE x.k = e.k /\ y.k = e.k

\* C7: the loop appends one record per evaluated (token, boost) group, so
\* total_trades is the number of groups; each table row has
\* payout = 200 * (1 + effect/100) and profit = payout - 200; total_profit is
\* the sum of the profits.
C7_OneTradePerEvent ==
    /\ Len(simulation_results) = gi
    /\ \A i \in 1..gi : simulation_results[i].TokenMint = Groups[i].TokenMint
    /\ Len(simulation_table) = ti
    /\ ti >= 1 => IsPayoutAndProfit(final_trade, profit, simulation_sorted[ti].Effect)
    /\ pc \in {"table", "done"} => total_profit = SumTwiceEffect(simulation_sorted, ti)
    /\ pc = "done" =>
          /\ summary.total_trades = Len(Groups)
          /\ Len(simulation_table) = Len(Groups)
          /\ summary.total_profit = SumTwiceEffect(simulation_results, Len(Groups))

\* a finished run of two or more trades whose total is neither zero nor whole
C7_Witness ==
    /\ pc = "done" /\ summary.total_trades >= 2
    /\ total_profit.k = "fin" /\ total_profit.n # 0 /\ total_profit.d # 1

AtTime(rs, t) == SelectSeq(rs, LAMBDA r : r.TimeSinceBoost = t)

\* C8: the sorted records ascend in event time, records of equal time keep
\* their input order, the sorted list is a permutation of the collected
\* records, and the table rows are written in that order.
C8_ChronologicalStable ==
    pc \in {"table", "done"} =>
        /\ \A i, j \in DOMAIN simulation_sorted :
              i < j => simulation_sorted[i].TimeSinceBoost <= simulation_sorted[j].TimeSinceBoost
        /\ Len(simulation_sorted) = Len(simulation_results)
        /\ \A t \in Times : AtTime(simulation_sorted, t) = AtTime(simulation_results, t)
        /\ \A i \in 1..ti :
              /\ simulation_table[i].TokenMint = simulation_sorted[i].TokenMint
              /\ simulation_table[i].Event = simulation_sorted[i].Event
              /\ simulation_table[i].Effect = Format(simulation_sorted[i].Effect, 2)

\* two different records of one event time, reported in their input order
C8_Witness ==
    /\ pc = "done" /\ Len(simulation_results) = 2
    /\ simulation_results[1].TimeSinceBoost = simulation_results[2].TimeSinceBoost
    /\ simulation_results[1] # simulation_results[2]
    /\ simulation_table[1].TokenMint = simulation_results[1].TokenMint
    /\ simulation_table[1].TokenMint # simulation_results[2].TokenMint

IsZero(f) == f.k = "fin" /\ f.units = 0

ProfitOfRecord(r) == profit_of(final_trade_of(r.Effect))
ProfitableIdx == {i \in DOMAIN simulation_results :
                     FGt(ProfitOfRecord(simulation_results[i]), Num(0))}

\* C10: for a non-empty run the win rate is 100 * (records with profit > 0)
\* / total_trades; effect > 0 selects exactly those records; the rate lies
\* between 0 and 100.
C10_WinRateCountsProfits ==
    (pc = "done" /\ summary.total_trades > 0) =>
        /\ summary.win_rate.k = "fin"
        /\ summary.win_rate.n * summary.total_trades
             = 100 * Cardinality(ProfitableIdx) * summary.win_rate.d
        /\ FLe(Num(0), summary.win_rate) /\ FLe(summary.win_rate, Num(100))
        /\ \A i \in DOMAIN simulation_results :
              FGt(simulation_results[i].Effect, Num(0)) <=> i \in ProfitableIdx

\* a run with a winning trade and a trade that ends on its start price
C10_Witness ==
    /\ pc = "done" /\ summary.total_trades = 2
    /\ Cardinality(ProfitableIdx) = 1
    /\ \E i \in DOMAIN simulation_results : simulation_results[i].Effect = Num(0)

RunTokens == {simulation_results[i].TokenMint : i \in DOMAIN simulation_results}
RugPullTokens ==
    {t \in RunTokens : \E i \in DOMAIN simulation_results :
        /\ simulation_results[i].TokenMint = t
        /\ FLe(simulation_results[i].Effect, Num(-50))}

\* C11: the rug-pull rate is 100 * (distinct tokens with at least one record
\* of effect <= -50) / (distinct tokens of the run); a token with several
\* records counts once; the rate never exceeds 100.
C11_RugPullRateOverDistinctTokens ==
    (pc = "done" /\ RunTokens # {}) =>
        /\ summary.rugpull_percentage.k = "fin"
        /\ summary.rugpull_percentage.n * Cardinality(RunTokens)
             = 100 * Cardinality(RugPullTokens) * summary.rugpull_percentage.d
        /\ FLe(Num(0), summary.rugpull_percentage)
        /\ FLe(summary.rugpull_percentage, Num(100))

\* one token with two records, both of them rug pulls
C11_Witness ==
    /\ pc = "done" /\ Len(simulation_results) = 2
    /\ Cardinality(RunTokens) = 1
    /\ \A i \in DOMAIN simulation_results : FLe(simulation_results[i].Effect, Num(-50))
    /\ summary.rugpull_percentage = Num(100)

TpIdxs == {i \in DOMAIN simulation_results : simulation_results[i].Event = "TP"}
SlIdxs == {i \in DOMAIN simulation_results : simulation_results[i].Event = "SL"}
NoTriggerIdxs == {i \in DOMAIN simulation_results : simulation_results[i].Event = "No trigger"}
NoPositiveIdxs == {i \in NoTriggerIdxs : FGt(simulation_results[i].Effect, Num(0))}
NoNegativeIdxs == {i \in NoTriggerIdxs : FLt(simulation_results[i].Effect, Num(0))}
NoFlatIdxs == {i \in NoTriggerIdxs : simulation_results[i].Effect = Num(0)}

\* C12: the four tallies count the TP records, the SL records, the no-trigger
\* records of effect > 0 and the no-trigger records of effect < 0; no record
\* is in two tallies; their sum is total_trades minus the number of
\* no-trigger records of effect exactly 0.
C12_TalliesPartitionTrades ==
    pc = "done" =>
        /\ summary.count_tp = Cardinality(TpIdxs)
        /\ summary.count_sl = Cardinality(SlIdxs)
        /\ summary.count_no_positive = Cardinality(NoPositiveIdxs)
        /\ summary.count_no_negative = Cardinality(NoNegativeIdxs)
        /\ \A i \in DOMAIN simulation_results :
              Cardinality({S \in {TpIdxs, SlIdxs, NoPositiveIdxs, NoNegativeIdxs} : i \in S}) <= 1
        /\ summary.count_tp + summary.count_sl + summary.count_no_positive
             + summary.count_no_negative
             = summary.total_trades - Cardinality(NoFlatIdxs)

\* a run with a flat no-trigger trade next to a losing no-trigger trade
C12_Witness ==
    /\ pc = "done" /\ summary.total_trades = 2
    /\ Cardinality(NoFlatIdxs) = 1
    /\ summary.count_no_negative = 1

(***************************************************************************)
(* Properties of the extremum scan (checked under SpecPeaks).              *)
(***************************************************************************)
Scanned == peaks # NoScan /\ troughs # NoScan

\* index c is the middle of a flat run l..r of inner samples whose two outer
\* neighbours are lower; r is 2c-l or 2c-l+1, the two ends that have c as
\* their middle
IsCandidate(x, c) ==
    \E l \in 1..c :
        /\ x[l] < x[l + 1]
        /\ \E r \in (2 * c - l)..(2 * c - l + 1) :
              /\ r <= Len(x) - 2
              /\ x[r + 2] < x[r + 1]
              /\ \A k \in l..r : x[k + 1] = x[l + 1]

PeakCandidates == {c \in 1..(Len(prices) - 2) : IsCandidate(prices, c)}
TroughCandidates ==
    LET x == negated(prices) IN {c \in 1..(Len(prices) - 2) : IsCandidate(x, c)}

Spaced(S) == \A a, b \in S : a # b => Abs(a - b) >= distance

\* C13: two different accepted peaks are at least distance apart, and so are
\* two different accepted troughs; nothing keeps a peak away from a trough.
C13_SameTypeExtremaSpaced ==
    Scanned =>
        /\ peaks.raised = "" /\ troughs.raised = ""
        /\ Spaced(peaks.idx)
        /\ Spaced(troughs.idx)

\* two accepted peaks, and a trough next to a peak under a distance of 2 or more
C13_Witness ==
    /\ Scanned /\ distance >= 2
    /\ Cardinality(peaks.idx) >= 2
    /\ \E a \in peaks.idx : \E b \in troughs.idx : Abs(a - b) = 1

NothingFound ==
    /\ peaks.raised = "" /\ peaks.idx = {}
    /\ troughs.raised = "" /\ troughs.idx = {}

\* C14 as claimed: a series of fewer than 2*distance+1 samples yields no
\* peak, no trough and no error.
C14_ShortSeriesHasNoExtrema ==
    (Scanned /\ Len(prices) < 2 * distance + 1) => NothingFound

\* C14: a series of fewer than 3 samples yields no peak, no trough and no
\* error.
C14_UnderThreeSamplesHasNoExtrema ==
    (Scanned /\ Len(prices) < 3) => NothingFound

\* a scanned series of two samples, the second above the first
C14_Witness ==
    /\ Scanned /\ Len(prices) = 2 /\ prices[1] < prices[2]
    /\ NothingFound

Close(a, b) == a # b /\ Abs(a - b) < distance

\* C15 as claimed: of two candidates of one type closer than distance, the
\* higher peak (the lower trough) is kept and the other is discarded.
C15_HigherOfCloseCandidatesKept ==
    Scanned =>
        /\ \A a, b \in PeakCandidates :
              (Close(a, b) /\ prices[a + 1] > prices[b + 1]) =>
                  (a \in peaks.idx /\ b \notin peaks.idx)
        /\ \A a, b \in TroughCandidates :
              (Close(a, b) /\ prices[a + 1] < prices[b + 1]) =>
                  (a \in troughs.idx /\ b \notin troughs.idx)

\* C15: of two candidates of one type closer than distance the scan never
\* keeps both, and it keeps the higher peak (the lower trough) unless that
\* one is closer than distance to a kept peak at least as high (a kept
\* trough at least as low).
C15_HigherKeptUnlessSuppressed ==
    Scanned =>
        /\ \A a, b \in PeakCandidates :
              (Close(a, b) /\ prices[a + 1] > prices[b + 1]) =>
                  /\ ~(a \in peaks.idx /\ b \in peaks.idx)
                  /\ \/ a \in peaks.idx
                     \/ \E c \in peaks.idx : Close(c, a) /\ prices[c + 1] >= prices[a + 1]
        /\ \A a, b \in TroughCandidates :
              (Close(a, b) /\ prices[a + 1] < prices[b + 1]) =>
                  /\ ~(a \in troughs.idx /\ b \in troughs.idx)
                  /\ \/ a \in troughs.idx
                     \/ \E c \in troughs.idx : Close(c, a) /\ prices[c + 1] <= prices[a + 1]

\* three peaks in a row: the highest removes the middle one, and the lowest,
\* closer than distance to the middle one, is kept
C15_Witness ==
    /\ Scanned
    /\ \E a, b \in PeakCandidates :
          /\ Close(a, b) /\ prices[a + 1] > prices[b + 1]
          /\ a \notin peaks.idx /\ b \in peaks.idx

(***************************************************************************)
(* Properties of the run's configuration, failures and aggregation         *)
(* (checked under Spec).                                                   *)
(***************************************************************************)
InvalidConfig ==
    \/ tp_threshold <= 100
    \/ sl_threshold >= 100
    \/ sl_threshold <= 0
    \/ distance <= 0
    \/ initial_trade <= 0

\* C16: a run whose configuration has tp_ratio <= 1.0, sl_ratio >= 1.0 or
\* <= 0, or a non-positive distance or stake evaluates no token: it has no
\* event, no record, no trade table and no summary.
C16_InvalidConfigEvaluatesNothing ==
    InvalidConfig =>
        /\ data = NoData
        /\ simulation_results = <<>>
        /\ pc \notin {"table", "done"}
        /\ summary = NoSummary

\* the run reports no list of failed or skipped tokens
failures == <<>>

\* C17: a failure on one token does not end the run: every run reaches its
\* summary, and then the records plus the reported failures are as many as
\* the tokens submitted.
C17_FailuresIsolatedAndCounted ==
    /\ pc # "raised"
    /\ pc = "done" => Len(simulation_results) + Len(failures) = Len(Groups)

Orders(n) == {o \in [1..n -> 1..n] : \A a, b \in 1..n : a # b => o[a] # o[b]}

RECURSIVE SumProfit(_)
SumProfit(rs) ==
    IF rs = <<>> THEN Num(0)
    ELSE FAdd(SumProfit(SubSeq(rs, 1, Len(rs) - 1)), ProfitOfRecord(rs[Len(rs)]))

\* the summary of a run that collected the records rs in this order
MetricsOf(rs) == summary_of(rs, SumProfit(sorted_by_time(rs)))

\* C18: the sort and the metrics wait for the last event: while groups are
\* being evaluated nothing is sorted or summarised, and once the sort has
\* run every group has its record; the metrics are the same for every order
\* in which the records could have been collected.
C18_AggregationIsBarrier ==
    /\ (pc = "groups" /\ gi < Len(Groups)) =>
           (simulation_sorted = <<>> /\ summary = NoSummary)
    /\ pc \in {"table", "done"} =>
           (gi = Len(Groups) /\ Len(simulation_results) = Len(Groups))
    /\ pc = "done" =>
           \A o \in Orders(Len(simulation_results)) :
               MetricsOf([k \in DOMAIN simulation_results |-> simulation_results[o[k]]])
                   = summary

\* a finished run of two groups with different records
C18_Witness ==
    /\ pc = "done" /\ Len(Groups) = 2
    /\ simulation_results[1].Effect # simulation_results[2].Effect
    /\ simulation_results[1].TimeSinceBoost # simulation_results[2].TimeSinceBoost

(***************************************************************************)
(* Properties of the token summary (checked under SpecSummary).            *)
(***************************************************************************)
Built == df_summary # NoTokenSummary /\ df_summary.raised = ""

\* C19: MaxPriceSeconds is the time of a row that has the greatest price
\* variation of the token, and MinPriceSeconds the time of a row that has
\* the smallest.
C19_ExtremeSecondsAtExtremeVariation ==
    Built =>
        /\ \E i \in DOMAIN df_prices :
              /\ \A j \in DOMAIN df_prices :
                    df_prices[j].PriceVariation <= df_prices[i].PriceVariation
              /\ df_summary.row.MaxPriceSeconds = df_prices[i].TimeSinceBoostStart
        /\ \E i \in DOMAIN df_prices :
              /\ \A j \in DOMAIN df_prices :
                    df_prices[i].PriceVariation <= df_prices[j].PriceVariation
              /\ df_summary.row.MinPriceSeconds = df_prices[i].TimeSinceBoostStart

Crossings == {i \in DOMAIN df_prices : df_prices[i].Trigger # "No event"}

\* C20: FirstTrigger is the kind of the earliest row that crosses a
\* threshold, "No event" when no row does, and SecondsTrigger is the time
\* of that row.
C20_FirstTriggerIsEarliestCrossing ==
    Built =>
        IF Crossings = {}
        THEN df_summary.row.FirstTrigger = "No event"
        ELSE \E i \in Crossings :
                /\ \A j \in Crossings :
                      df_prices[i].TimeSinceBoostStart <= df_prices[j].TimeSinceBoostStart
                /\ df_summary.row.FirstTrigger = df_prices[i].Trigger
                /\ df_summary.row.SecondsTrigger = df_prices[i].TimeSinceBoostStart
====
